---- MODULE Spec2Model ----
(***************************************************************************)
(* ScriptO backend: the AI interaction pipeline.                           *)
(*                                                                         *)
(* State: the ai_interactions table (models/ai_model.py), the background   *)
(* tasks scheduled by the queued handlers (routes/ai_route.py), the        *)
(* synchronous handlers of routes/ai_routes.py, the provider adapter       *)
(* (ai/providers/claude_provider.py) and the responses sent to callers.    *)
(*                                                                         *)
(* AIService.create_pending_interaction, process_stem_problem,             *)
(* process_term_definition and get_interaction are called by               *)
(* routes/ai_route.py but are not defined in services/ai_service.py; they  *)
(* are modelled from section 4.5 of the specification.                     *)
(***************************************************************************)
EXTENDS Integers, Sequences, FiniteSets, TLC

\* ------------------------------------------------------------------ bounds
MaxInteractions == 1      \* rows the ai_interactions table may hold
MaxReinvoke == 1          \* extra process invocations for an existing id

\* ------------------------------------------------------------------ values
NULL == "NULL"                \* a string column or field holding no value
None == [none |-> TRUE]       \* no row, no JSON payload, no response
NoTime == 0                   \* a DateTime column holding no value
Users == {"alice", "bob"}
Ids == 1..MaxInteractions
Kinds == {"stem_solution", "term_definition"}
Texts == {"t1"}
Details == {"quota", "network"}
Statuses == {"pending", "processing", "completed", "failed"}
Terminal == {"completed", "failed"}

\* what the upstream completion API does with one call
Upstream == {[ok |-> TRUE, text |-> "answer"]}
            \cup {[ok |-> FALSE, text |-> d] : d \in Details}

VARIABLES
    interactions,   \* ai_interactions: id -> row, None when no such row
    history,        \* per row, the status after each write to it
    queued,         \* per id, process calls scheduled and not yet started
    awaiting,       \* per id, process calls suspended in the provider call
    providerCalls,  \* per id, number of solve/define provider invocations
    outcome,        \* per id, how the provider call of its processing ended
    rejected,       \* per id, process calls that found the row not pending
    reinvoked,      \* number of extra process invocations made
    submitResp,     \* per id, the response the submit handler returned
    legacy,         \* the synchronous handler: its request in flight, or the
                    \* status code of its last response (0: none yet)
    statusResp,     \* the last response of the status check
    hung,           \* per id, the upstream API will never answer its call
    arg,            \* the input of the function or service call under study
    res             \* its result, None until it has been applied

\* the state of the interaction pipeline
pipeVars == <<interactions, history, queued, awaiting, providerCalls, outcome,
              rejected, reinvoked, submitResp, legacy, statusResp, hung>>

vars == <<interactions, history, queued, awaiting, providerCalls, outcome,
          rejected, reinvoked, submitResp, legacy, statusResp, hung, arg, res>>

\* ------------------------------------------------------------ the provider

\* f"Claude completion failed: {str(e)}"
CompletionFailed ==
    [quota |-> "Claude completion failed: quota",
     network |-> "Claude completion failed: network"]

\* ClaudeProvider.generate_completion with its except clause swallowing the
\* upstream failure instead of raising.
generate_completion_swallow(up) ==
    IF up.ok THEN [raised |-> FALSE, error |-> NULL, value |-> up.text]
    ELSE [raised |-> FALSE, error |-> NULL, value |-> ""]

\* ClaudeProvider.generate_completion: the upstream text, or
\* `raise Exception(f"Claude completion failed: {str(e)}")`. error is the class
\* of the exception raised: the builtin Exception, not a class of
\* ai/utils/exceptions.py.
generate_completion(up) ==
    IF up.ok THEN [raised |-> FALSE, error |-> NULL, value |-> up.text]
    ELSE [raised |-> TRUE, error |-> "Exception",
          value |-> CompletionFailed[up.text]]

\* ClaudeProvider.solve_stem_problem losing its return value.
solve_stem_problem_noreturn(problem, subject, up) ==
    LET r == generate_completion(up)
    IN  IF r.raised THEN r
        ELSE [raised |-> FALSE, error |-> NULL, value |-> None]

\* ClaudeProvider.solve_stem_problem: no try/except of its own.
solve_stem_problem(problem, subject, up) ==
    LET r == generate_completion(up)
    IN  IF r.raised THEN r
        ELSE [raised |-> FALSE, error |-> NULL,
              value |-> [solution |-> r.value, subject |-> subject,
                         type |-> "stem_solution"]]

\* ClaudeProvider.define_term.
define_term(term, context, up) ==
    LET r == generate_completion(up)
    IN  IF r.raised THEN r
        ELSE [raised |-> FALSE, error |-> NULL,
              value |-> [definition |-> r.value, term |-> term,
                         context |-> context, type |-> "term_definition"]]

\* ------------------------------------------------------------ the table

Present == {id \in Ids : interactions[id] # None}
NextId == Cardinality(Present) + 1

\* datetime.utcnow(): some instant; instants are not told apart, only a set
\* timestamp from an unset one
now == 1

\* AIInteraction(...) as built by create_pending_interaction.
PendingRecord(u, kind, req, t) ==
    [user_id |-> u, type |-> kind, status |-> "pending", request_data |-> req,
     response_data |-> None, error_message |-> NULL,
     created_at |-> t, completed_at |-> NoTime]

\* _log_interaction that also stamps completed_at.
LogRecordStamped(u, req, resp, t) ==
    [user_id |-> u, type |-> NULL, status |-> NULL, request_data |-> req,
     response_data |-> resp, error_message |-> NULL,
     created_at |-> t, completed_at |-> t]

\* AIInteraction(...) as built by AIService._log_interaction: user_id,
\* request_data, response_data and created_at; every other column is unset.
LogRecord(u, req, resp, t) ==
    [user_id |-> u, type |-> NULL, status |-> NULL, request_data |-> req,
     response_data |-> resp, error_message |-> NULL,
     created_at |-> t, completed_at |-> NoTime]

\* BaseService.get: the row with that id, whoever owns it.
get(db, id) == db[id]

\* AIService.get_interaction(db, interaction_id, user_id): the row only if it
\* belongs to the requesting user.
get_interaction(db, id, u) ==
    IF get(db, id) # None /\ get(db, id).user_id = u THEN get(db, id) ELSE None

\* ------------------------------------------------------------ check_status

StatusOk(interaction) ==
    [code |-> 200,
     detail |-> "Status retrieved successfully",
     data |-> interaction.response_data,
     status |-> interaction.status,
     created_at |-> interaction.created_at,
     completed_at |-> interaction.completed_at]

\* HTTPException(404) is raised inside the try block and caught by the
\* handler's own `except Exception`, which answers 500.
StatusFailed ==
    [code |-> 500, detail |-> "Failed to check status", data |-> None,
     status |-> NULL, created_at |-> NoTime, completed_at |-> NoTime]

\* check_status looking the row up by id alone.
check_status_unscoped(db, id, u) ==
    IF get(db, id) = None THEN StatusFailed ELSE StatusOk(get(db, id))

\* routes/ai_route.py check_status
check_status(db, id, u) ==
    LET interaction == get_interaction(db, id, u)
    IN  IF interaction = None THEN StatusFailed ELSE StatusOk(interaction)

\* ------------------------------------------------------------ Init

PipelineInit ==
    /\ interactions = [id \in Ids |-> None]
    /\ history = [id \in Ids |-> <<>>]
    /\ queued = [id \in Ids |-> 0]
    /\ awaiting = [id \in Ids |-> 0]
    /\ providerCalls = [id \in Ids |-> 0]
    /\ outcome = [id \in Ids |-> NULL]
    /\ rejected = [id \in Ids |-> 0]
    /\ reinvoked = 0
    /\ submitResp = [id \in Ids |-> None]
    /\ legacy = [pc |-> "idle", kind |-> NULL, code |-> 0]
    /\ statusResp = None
    /\ hung = [id \in Ids |-> FALSE]

Init ==
    /\ PipelineInit
    /\ arg = None
    /\ res = None

\* ------------------------------------------------------------ queued handlers

\* request_data of a solve submission (ai_route.py 42-46) and of a define
\* submission (ai_route.py 97-100)
SolveRequestData_nocontext(text, subject, context) ==
    [problem |-> text, subject |-> subject, context |-> NULL]

SolveRequestData(text, subject, context) ==
    [problem |-> text, subject |-> subject, context |-> context]

DefineRequestData(text, context) == [term |-> text, context |-> context]

\* The APIResponse the queued handlers return (ai_route.py 60-68, 113-121).
SubmitResponse(id) ==
    [success |-> TRUE, interaction_id |-> id, status |-> "processing"]

\* Persist a pending row, schedule its processing, answer.
Submit(u, kind, req) ==
    LET id == NextId
    IN  /\ id \in Ids
        /\ interactions' = [interactions EXCEPT ![id] = PendingRecord(u, kind, req, now)]
        /\ history' = [history EXCEPT ![id] = <<"pending">>]
        /\ queued' = [queued EXCEPT ![id] = 1]
        /\ submitResp' = [submitResp EXCEPT ![id] = SubmitResponse(id)]
        /\ UNCHANGED <<awaiting, providerCalls, outcome, rejected, reinvoked,
                       legacy, statusResp,
                       hung, arg, res>>

\* Any exception before the return (the rate limiter's 429 included) is caught
\* by `except Exception` and answered 500; nothing is persisted or scheduled.
SubmitFailed == UNCHANGED vars

\* POST /solve of routes/ai_route.py. `limited`: rate_limiter(request) raised.
route_solve_stem_problem(u, text, subject, context, limited) ==
    IF limited
    THEN SubmitFailed
    ELSE Submit(u, "stem_solution", SolveRequestData(text, subject, context))

\* POST /define of routes/ai_route.py.
route_define_term(u, text, context, limited) ==
    IF limited
    THEN SubmitFailed
    ELSE Submit(u, "term_definition", DefineRequestData(text, context))

\* ------------------------------------------------------------ processing

\* process accepting a row in any status.
can_process_any(rec) == rec # None

\* process starts work only on a pending row; on a processing or terminal row
\* the call is rejected.
can_process(rec) == rec # None /\ rec.status = "pending"

\* The provider call a process task makes for its row.
ProviderResult(rec, up) ==
    IF rec.type = "stem_solution"
    THEN solve_stem_problem(rec.request_data.problem, rec.request_data.subject, up)
    ELSE define_term(rec.request_data.term, rec.request_data.context, up)

\* A scheduled process call starts: pending -> processing in one write, then
\* the provider is called and the task suspends; any other status: rejected.
process_begin(id) ==
    /\ queued[id] > 0
    /\ queued' = [queued EXCEPT ![id] = @ - 1]
    /\ IF can_process(interactions[id])
       THEN /\ interactions' = [interactions EXCEPT ![id].status = "processing"]
            /\ history' = [history EXCEPT ![id] = Append(@, "processing")]
            /\ awaiting' = [awaiting EXCEPT ![id] = @ + 1]
            /\ providerCalls' = [providerCalls EXCEPT ![id] = @ + 1]
            /\ UNCHANGED rejected
       ELSE /\ rejected' = [rejected EXCEPT ![id] = @ + 1]
            /\ UNCHANGED <<interactions, history, awaiting, providerCalls>>
    /\ UNCHANGED <<outcome, reinvoked, submitResp, legacy, statusResp,
                   hung, arg, res>>

\* The provider call of a process task ends and the task writes the terminal
\* state: completed with the response, or failed with the error message.
process_end(id, up) ==
    LET rec == interactions[id]
        r == ProviderResult(rec, up)
        done == IF r.raised
                THEN [rec EXCEPT !.status = "failed", !.error_message = r.value,
                                 !.completed_at = now]
                ELSE [rec EXCEPT !.status = "completed", !.response_data = r.value,
                                 !.completed_at = now]
    IN  /\ awaiting[id] > 0
        /\ ~hung[id]
        /\ awaiting' = [awaiting EXCEPT ![id] = @ - 1]
        /\ interactions' = [interactions EXCEPT ![id] = done]
        /\ history' = [history EXCEPT ![id] = Append(@, done.status)]
        /\ outcome' = [outcome EXCEPT ![id] = IF up.ok THEN "returned" ELSE "raised"]
        /\ UNCHANGED <<queued, providerCalls, rejected, reinvoked, submitResp,
                       legacy, statusResp,
                       hung, arg, res>>

\* The upstream API stops answering the call a process task is suspended in.
\* ClaudeProvider passes no timeout to client.messages.create and nothing reads
\* AIConfig.request_timeout, so the task stays suspended.
upstream_hangs(id) ==
    /\ awaiting[id] > 0
    /\ ~hung[id]
    /\ hung' = [hung EXCEPT ![id] = TRUE]
    /\ UNCHANGED <<interactions, history, queued, awaiting, providerCalls,
                   outcome, rejected, reinvoked, submitResp, legacy,
                   statusResp, arg, res>>

\* process is invoked once more for an interaction that was already submitted.
reinvoke(id) ==
    /\ reinvoked < MaxReinvoke
    /\ interactions[id] # None
    /\ interactions[id].type \in Kinds
    /\ reinvoked' = reinvoked + 1
    /\ queued' = [queued EXCEPT ![id] = @ + 1]
    /\ UNCHANGED <<interactions, history, awaiting, providerCalls, outcome,
                   rejected, submitResp, legacy, statusResp,
                   hung, arg, res>>

\* ------------------------------------------------------------ post-hoc log

\* AIService._log_interaction: add and commit one row.
log_interaction(u, req, resp) ==
    LET id == NextId
    IN  /\ id \in Ids
        /\ interactions' = [interactions EXCEPT ![id] = LogRecord(u, req, resp, now)]
        /\ history' = [history EXCEPT ![id] = <<NULL>>]
        /\ UNCHANGED <<queued, awaiting, providerCalls, outcome, rejected,
                       reinvoked, submitResp, legacy, statusResp,
                       hung, arg, res>>

\* ------------------------------------------------------------ status check

\* who asks for which row: its owner, another user, or nobody's (no such row)
Caller(db, id, u) ==
    IF db[id] = None THEN "missing"
    ELSE IF db[id].user_id = u THEN "owner" ELSE "other"

\* GET /status/{interaction_id}
CheckStatus(u, id) ==
    /\ statusResp' = [caller |-> Caller(interactions, id, u),
                      resp |-> check_status(interactions, id, u)]
    /\ UNCHANGED <<interactions, history, queued, awaiting, providerCalls,
                   outcome, rejected, reinvoked, submitResp, legacy,
                   hung, arg, res>>

\* ------------------------------------------------------------ synchronous handlers

\* routes/ai_routes.py solve_stem_problem and define_term up to the awaited
\* provider call: a 429 of the rate limiter is re-raised as it is, otherwise
\* the provider is called inside the handler.
legacy_call(u, kind, text, limited) ==
    /\ legacy.pc = "idle"
    /\ legacy' = IF limited
                 THEN [pc |-> "idle", kind |-> kind, code |-> 429]
                 ELSE [pc |-> "awaiting", kind |-> kind, code |-> 0]
    /\ UNCHANGED <<interactions, history, queued, awaiting, providerCalls,
                   outcome, rejected, reinvoked, submitResp, statusResp,
                   hung, arg, res>>

\* The awaited provider call ends and the handler answers. On the success path
\* the metadata is built with str(UUID()); uuid.UUID() without arguments raises
\* TypeError, so both paths end in `except Exception` and answer 500.
legacy_return(up) ==
    /\ legacy.pc = "awaiting"
    /\ legacy' = [pc |-> "idle", kind |-> legacy.kind, code |-> 500]
    /\ UNCHANGED <<interactions, history, queued, awaiting, providerCalls,
                   outcome, rejected, reinvoked, submitResp, statusResp,
                   hung, arg, res>>

\* ------------------------------------------------------------ specification

Next ==
    \/ \E u \in Users, t \in Texts, l \in BOOLEAN :
           route_solve_stem_problem(u, t, "algebra", NULL, l)
    \/ \E u \in Users, t \in Texts, l \in BOOLEAN :
           route_define_term(u, t, NULL, l)
    \/ \E id \in Ids : process_begin(id)
    \/ \E id \in Ids, up \in Upstream : process_end(id, up)
    \/ \E id \in Ids : upstream_hangs(id)
    \/ \E id \in Ids : reinvoke(id)
    \/ \E u \in Users, t \in Texts : log_interaction(u, [content |-> t], [suggestions |-> "Sample analysis result"])
    \/ \E u \in Users, id \in Ids : CheckStatus(u, id)
    \/ \E u \in Users, k \in Kinds, t \in Texts, l \in BOOLEAN : legacy_call(u, k, t, l)
    \/ \E up \in Upstream : legacy_return(up)

Spec == Init /\ [][Next]_vars

\* The event loop runs every scheduled background task, and a provider call
\* that the upstream API answers does return.
FairSpec ==
    /\ Spec
    /\ \A id \in Ids : WF_vars(process_begin(id))
    /\ \A id \in Ids : WF_vars(\E up \in Upstream : process_end(id, up))

\* ------------------------------------------------------------ lifecycle

Lifecycles ==
    {<<"pending", "processing", "completed">>, <<"pending", "processing", "failed">>}

IsPrefix(s, t) == Len(s) <= Len(t) /\ \A i \in 1..Len(s) : s[i] = t[i]

Owner(id) == interactions[id].user_id

\* C1: for every interaction row, the statuses written to it over its life
\* are a non-empty prefix of pending, processing, then completed or failed:
\* it is created as pending, never skips processing, never moves backwards
\* and is not written again once it is completed or failed.
C1_Lifecycle ==
    \A id \in Ids :
        interactions[id] # None =>
            /\ Len(history[id]) >= 1
            /\ \E l \in Lifecycles : IsPrefix(history[id], l)

\* C2: the provider is never invoked for a solve or define request before that
\* request's response has been returned: for a queued submission the provider
\* has been called only if the submit response was sent, and no handler is
\* suspended in a provider call.
C2_ProviderAfterResponse ==
    /\ \A id \in Ids : providerCalls[id] > 0 => submitResp[id] # None
    /\ legacy.pc # "awaiting"

\* C3: the response to an accepted submission carries the new interaction's
\* id and reports pending, the status stored on the row when the response is
\* produced.
C3_SubmitReportsPending ==
    \A id \in Ids :
        submitResp[id] # None =>
            /\ submitResp[id].interaction_id = id
            /\ submitResp[id].status = "pending"
            /\ submitResp[id].status = history[id][1]

\* the answer of the status check for an id no row has
MissingResponse(id, u) == check_status([i \in Ids |-> None], id, u)

\* C4: a user who does not own a row gets from the status check exactly the
\* answer given for an id that has no row, and that answer carries neither
\* the row's status nor its payload.
C4_NonOwnerSameAsMissing ==
    /\ \A id \in Ids, u \in Users :
           (interactions[id] # None /\ Owner(id) # u) =>
               /\ check_status(interactions, id, u) = MissingResponse(id, u)
               /\ check_status(interactions, id, u).status = NULL
               /\ check_status(interactions, id, u).data = None
    /\ (statusResp # None /\ statusResp.caller = "other") =>
           \A id \in Ids, u \in Users : statusResp.resp = MissingResponse(id, u)

\* a non-owner has checked the status of a completed interaction
C4_Witness ==
    /\ statusResp # None
    /\ statusResp.caller = "other"
    /\ \E id \in Ids : interactions[id] # None /\ interactions[id].status = "completed"

\* C5: every persisted row has a status that is one of pending, processing,
\* completed, failed.
C5_StatusInEnum ==
    \A id \in Ids : interactions[id] # None => interactions[id].status \in Statuses

\* C6: for every persisted row, the response payload is non-null if and only
\* if the status is completed.
C6_ResponseIffCompleted ==
    \A id \in Ids :
        interactions[id] # None =>
            ((interactions[id].response_data # None)
                <=> (interactions[id].status = "completed"))

\* C7: for every persisted row, completed_at is set if and only if the status
\* is completed or failed.
C7_CompletedAtIffTerminal ==
    \A id \in Ids :
        interactions[id] # None =>
            ((interactions[id].completed_at # NoTime)
                <=> (interactions[id].status \in Terminal))

\* a row has reached a terminal status and carries its completion time
C7_Witness ==
    \E id \in Ids :
        /\ interactions[id] # None
        /\ interactions[id].status \in Terminal
        /\ interactions[id].completed_at # NoTime

\* C8: when the provider call of an interaction's processing failed, the row
\* is failed with an error message and a completion time, its response
\* payload is null, and the owner's status check reports failed.
C8_FailureRecorded ==
    \A id \in Ids :
        outcome[id] = "raised" =>
            /\ interactions[id].status = "failed"
            /\ interactions[id].error_message # NULL
            /\ interactions[id].completed_at # NoTime
            /\ interactions[id].response_data = None
            /\ check_status(interactions, id, Owner(id)).code = 200
            /\ check_status(interactions, id, Owner(id)).status = "failed"

\* the owner has checked an interaction whose provider call failed
C8_Witness ==
    /\ \E id \in Ids : outcome[id] = "raised"
    /\ statusResp # None
    /\ statusResp.caller = "owner"
    /\ statusResp.resp.status = "failed"

\* C9: when the provider call of an interaction's processing returned, the
\* owner's status check answers completed with a response payload and a
\* completion time, and the row's error message is null.
C9_SuccessReported ==
    \A id \in Ids :
        outcome[id] = "returned" =>
            /\ check_status(interactions, id, Owner(id)).code = 200
            /\ check_status(interactions, id, Owner(id)).status = "completed"
            /\ check_status(interactions, id, Owner(id)).data # None
            /\ check_status(interactions, id, Owner(id)).completed_at # NoTime
            /\ interactions[id].error_message = NULL

\* the owner has checked an interaction whose provider call returned
C9_Witness ==
    /\ \E id \in Ids : outcome[id] = "returned"
    /\ statusResp # None
    /\ statusResp.caller = "owner"
    /\ statusResp.resp.status = "completed"
    /\ statusResp.resp.data # None

C11_EventuallyTerminal ==
    \A id \in Ids :
        (interactions[id] # None /\ interactions[id].status = "processing")
            ~> (interactions[id] # None /\ interactions[id].status \in Terminal)

\* C19: whenever the upstream completion fails, the adapter's operation fails
\* with an AIProviderError whose message carries the upstream detail.
C19_ProviderErrorClass ==
    legacy.pc = "awaiting" =>
        \A up \in Upstream :
            ~up.ok =>
                \A r \in {generate_completion(up),
                          solve_stem_problem("t1", "algebra", up),
                          define_term("t1", None, up)} :
                    /\ r.raised
                    /\ r.error = "AIProviderError"
                    /\ r.value = CompletionFailed[up.text]

\* ------------------------------------------------------------ strings

\* A str is the sequence of its characters. A character outside ASCII is
\* named by its code point.
MULTIPLICATION_SIGN == "U+00D7"
DIVISION_SIGN == "U+00F7"
MINUS_SIGN == "U+2212"
SQUARE_ROOT == "U+221A"

\* characters str.split() and str.strip() treat as whitespace
Whitespace == {" ", "\t", "\n"}

\* all strings over an alphabet of at most n characters
Strings(alphabet, n) == UNION {[1..k -> alphabet] : k \in 0..n}

LowerCase ==
    [A |-> "a", B |-> "b", C |-> "c", D |-> "d", E |-> "e", F |-> "f",
     G |-> "g", H |-> "h", I |-> "i", J |-> "j", K |-> "k", L |-> "l",
     M |-> "m", N |-> "n", O |-> "o", P |-> "p", Q |-> "q", R |-> "r",
     S |-> "s", T |-> "t", U |-> "u", V |-> "v", W |-> "w", X |-> "x",
     Y |-> "y", Z |-> "z"]

\* str.lower()
lower(text) ==
    [i \in 1..Len(text) |->
        IF text[i] \in DOMAIN LowerCase THEN LowerCase[text[i]] ELSE text[i]]

\* str.strip()
RECURSIVE lstrip(_)
lstrip(text) ==
    IF text # <<>> /\ Head(text) \in Whitespace THEN lstrip(Tail(text)) ELSE text

RECURSIVE rstrip(_)
rstrip(text) ==
    IF text # <<>> /\ text[Len(text)] \in Whitespace
    THEN rstrip(SubSeq(text, 1, Len(text) - 1))
    ELSE text

strip(text) == rstrip(lstrip(text))

\* str.split() without a separator: the maximal runs of non-whitespace
RECURSIVE split_from(_, _, _)
split_from(text, i, word) ==
    LET words == IF word = <<>> THEN <<>> ELSE <<word>>
    IN  IF i > Len(text) THEN words
        ELSE IF text[i] \in Whitespace
             THEN words \o split_from(text, i + 1, <<>>)
             ELSE split_from(text, i + 1, Append(word, text[i]))

split(text) == split_from(text, 1, <<>>)

\* sep.join(words)
RECURSIVE join(_, _)
join(sep, words) ==
    IF words = <<>> THEN <<>>
    ELSE IF Len(words) = 1 THEN words[1]
    ELSE words[1] \o sep \o join(sep, Tail(words))

\* str.replace(old, new) for a one-character old
RECURSIVE replace(_, _, _)
replace(text, old, new) ==
    IF text = <<>> THEN <<>>
    ELSE (IF Head(text) = old THEN new ELSE <<Head(text)>>)
         \o replace(Tail(text), old, new)

\* ------------------------------------------------------------ text cleaning

\* ProcessorBase._clean_text keeping inner whitespace: text.strip()
clean_text_strip(text) == strip(text)

\* ProcessorBase._clean_text: " ".join(text.split())
clean_text(text) == join(<<" ">>, split(text))

\* the replacements dict of _normalize_math_symbols, in insertion order
replacements ==
    << <<MULTIPLICATION_SIGN, <<"*">> >>,
       <<DIVISION_SIGN, <<"/">> >>,
       <<MINUS_SIGN, <<"-">> >>,
       <<"=", <<" ", "=", " ">> >>,
       <<"+", <<" ", "+", " ">> >>,
       <<"-", <<" ", "-", " ">> >>,
       <<"*", <<" ", "*", " ">> >>,
       <<"/", <<" ", "/", " ">> >> >>

\* for old, new in items: text = text.replace(old, new)
RECURSIVE replace_all(_, _)
replace_all(text, items) ==
    IF items = <<>> THEN text
    ELSE replace_all(replace(text, items[1][1], items[1][2]), Tail(items))

\* ProblemProcessor._normalize_math_symbols padding the operators before it
\* substitutes the typographic symbols.
normalize_math_symbols_padfirst(text) ==
    replace_all(text, SubSeq(replacements, 4, 8) \o SubSeq(replacements, 1, 3))

\* ProblemProcessor._normalize_math_symbols
normalize_math_symbols(text) == replace_all(text, replacements)

MaxTextLen == 4
MaxSymbolLen == 3

\* whitespace among letters
CleanAlphabet == {" ", "\n", "a", "B"}

\* the characters of the replacements dict among a letter and a space
SymbolAlphabet ==
    {" ", "a", "=", "+", "-", "*", "/",
     MULTIPLICATION_SIGN, DIVISION_SIGN, MINUS_SIGN}

\* the texts the two helpers are applied to
TextInputs ==
    Strings(CleanAlphabet, MaxTextLen) \cup Strings(SymbolAlphabet, MaxSymbolLen)

\* a call of _clean_text on the text
call_clean_text ==
    /\ res = None
    /\ res' = [op |-> "clean", value |-> clean_text(arg)]
    /\ UNCHANGED <<pipeVars, arg>>

\* a call of _normalize_math_symbols on the text
call_normalize_math_symbols ==
    /\ res = None
    /\ res' = [op |-> "symbols", value |-> normalize_math_symbols(arg)]
    /\ UNCHANGED <<pipeVars, arg>>

TextInit ==
    /\ PipelineInit
    /\ arg \in TextInputs
    /\ res = None

TextNext ==
    \/ call_clean_text
    \/ call_normalize_math_symbols

SpecText == TextInit /\ [][TextNext]_vars

\* C14: cleaning a cleaned text changes nothing; a cleaned text has no
\* leading or trailing whitespace and no two adjacent whitespace characters.
C14_CleanIdempotent ==
    (res # None /\ res.op = "clean") =>
        LET c == res.value
        IN  /\ clean_text(c) = c
            /\ c # <<>> => (c[1] \notin Whitespace /\ c[Len(c)] \notin Whitespace)
            /\ \A i \in 1..(Len(c) - 1) :
                   ~(c[i] \in Whitespace /\ c[i + 1] \in Whitespace)

\* a text with leading, trailing and repeated whitespace has been cleaned
C14_Witness ==
    /\ res # None /\ res.op = "clean"
    /\ arg = <<" ", "a", "\n", "\n">>
    /\ res.value = <<"a">>

Operators == {"=", "+", "-", "*", "/"}

\* C17: after the symbol pass the text holds none of the typographic
\* multiplication, division and minus signs, and every = + - * / has a space
\* right before and right after it.
C17_OperatorsPadded ==
    (res # None /\ res.op = "symbols") =>
        LET r == res.value
        IN  \A i \in 1..Len(r) :
                /\ r[i] \notin {MULTIPLICATION_SIGN, DIVISION_SIGN, MINUS_SIGN}
                /\ r[i] \in Operators =>
                       /\ i > 1 /\ r[i - 1] = " "
                       /\ i < Len(r) /\ r[i + 1] = " "

\* a typographic sign next to an ASCII operator has been normalised
C17_Witness ==
    /\ res # None /\ res.op = "symbols"
    /\ arg = <<"a", MULTIPLICATION_SIGN, "=">>
    /\ res.value = <<"a", " ", "*", " ", " ", "=", " ">>

\* ------------------------------------------------------------ subject resolution
algebra == <<"a", "l", "g", "e", "b", "r", "a">>
geometry == <<"g", "e", "o", "m", "e", "t", "r", "y">>
calculus == <<"c", "a", "l", "c", "u", "l", "u", "s">>
physics == <<"p", "h", "y", "s", "i", "c", "s">>
chemistry == <<"c", "h", "e", "m", "i", "s", "t", "r", "y">>
biology == <<"b", "i", "o", "l", "o", "g", "y">>
statistics == <<"s", "t", "a", "t", "i", "s", "t", "i", "c", "s">>
computer_science == <<"c", "o", "m", "p", "u", "t", "e", "r", " ", "s", "c", "i", "e", "n", "c", "e">>
general_math == <<"g", "e", "n", "e", "r", "a", "l", " ", "m", "a", "t", "h">>

\* ProcessorBase.SUPPORTED_SUBJECTS
SUPPORTED_SUBJECTS ==
    <<algebra, geometry, calculus, physics, chemistry, biology, statistics,
      computer_science, general_math>>

\* x in self.SUPPORTED_SUBJECTS
Supported(x) == \E i \in 1..Len(SUPPORTED_SUBJECTS) : SUPPORTED_SUBJECTS[i] = x

\* a str value where None is possible too
Str(s) == [none |-> FALSE, str |-> s]

\* the truth value of an Optional[str]: None and "" are false
Truthy(s) == s # None /\ s.str # <<>>

\* a configured provider whose upstream call ends as `up`
Provider(up) == [none |-> FALSE, upstream |-> up]

\* _detect_subject comparing the hint as it was typed, without lower()
detect_subject_exact(text, provided_subject, ai_provider) ==
    IF Truthy(provided_subject) /\ Supported(provided_subject.str)
    THEN [raised |-> FALSE, value |-> provided_subject.str, prompted |-> <<>>]
    ELSE IF ai_provider # None
    THEN LET response == generate_completion(ai_provider.upstream)
             detected == lower(strip(response.value))
         IN  IF ~response.raised /\ Supported(detected)
             THEN [raised |-> FALSE, value |-> detected, prompted |-> <<text>>]
             ELSE [raised |-> FALSE, value |-> general_math, prompted |-> <<text>>]
    ELSE [raised |-> FALSE, value |-> general_math, prompted |-> <<>>]

\* _detect_subject without the try/except around the provider call
detect_subject_noexcept(text, provided_subject, ai_provider) ==
    IF Truthy(provided_subject) /\ Supported(lower(provided_subject.str))
    THEN [raised |-> FALSE, value |-> lower(provided_subject.str),
          prompted |-> <<>>]
    ELSE IF ai_provider # None
    THEN LET response == generate_completion(ai_provider.upstream)
             detected == lower(strip(response.value))
         IN  IF response.raised
             THEN [raised |-> TRUE, value |-> response.value, prompted |-> <<text>>]
             ELSE IF Supported(detected)
             THEN [raised |-> FALSE, value |-> detected, prompted |-> <<text>>]
             ELSE [raised |-> FALSE, value |-> general_math, prompted |-> <<text>>]
    ELSE [raised |-> FALSE, value |-> general_math, prompted |-> <<>>]

\* _detect_subject returning whatever the provider answered
detect_subject_unchecked(text, provided_subject, ai_provider) ==
    IF Truthy(provided_subject) /\ Supported(lower(provided_subject.str))
    THEN [raised |-> FALSE, value |-> lower(provided_subject.str),
          prompted |-> <<>>]
    ELSE IF ai_provider # None
    THEN LET response == generate_completion(ai_provider.upstream)
         IN  IF ~response.raised
             THEN [raised |-> FALSE, value |-> lower(strip(response.value)),
                   prompted |-> <<text>>]
             ELSE [raised |-> FALSE, value |-> general_math, prompted |-> <<text>>]
    ELSE [raised |-> FALSE, value |-> general_math, prompted |-> <<>>]

\* ProcessorBase._detect_subject. prompted lists the texts put into a
\* classification prompt, one for each provider call made.
detect_subject(text, provided_subject, ai_provider) ==
    IF Truthy(provided_subject) /\ Supported(lower(provided_subject.str))
    THEN [raised |-> FALSE, value |-> lower(provided_subject.str),
          prompted |-> <<>>]
    ELSE IF ai_provider # None
    THEN LET response == generate_completion(ai_provider.upstream)
             detected == lower(strip(response.value))
         IN  IF ~response.raised /\ Supported(detected)
             THEN [raised |-> FALSE, value |-> detected, prompted |-> <<text>>]
             ELSE \* not an entry, or `except Exception: pass`
                  [raised |-> FALSE, value |-> general_math, prompted |-> <<text>>]
    ELSE [raised |-> FALSE, value |-> general_math, prompted |-> <<>>]

\* the subject hints of the callers: none, empty, entries in any case, others
Hints ==
    {None,
     Str(<<>>),
     Str(<<"a", "l", "g", "e", "b", "r", "a">>),
     Str(<<"A", "l", "g", "e", "b", "r", "a">>),
     Str(<<"P", "H", "Y", "S", "I", "C", "S">>),
     Str(<<"C", "o", "m", "p", "u", "t", "e", "r", " ", "S", "c", "i", "e", "n", "c", "e">>),
     Str(<<"g", "e", "n", "e", "r", "a", "l", " ", "m", "a", "t", "h">>),
     Str(<<"G", "e", "o", "M", "e", "t", "r", "y">>),
     Str(<<"h", "i", "s", "t", "o", "r", "y">>),
     Str(<<" ", "a", "l", "g", "e", "b", "r", "a">>),
     Str(<<"m", "a", "t", "h">>),
     Str(<<"s", "t", "a", "t", "i", "s", "t", "i", "c", "s">>)}

\* what the upstream may answer to the classification prompt
Answers ==
    {<<"p", "h", "y", "s", "i", "c", "s">>,
     <<" ", "P", "h", "y", "s", "i", "c", "s", "\n">>,
     <<"C", "A", "L", "C", "U", "L", "U", "S">>,
     <<"C", "o", "m", "p", "u", "t", "e", "r", " ", "s", "c", "i", "e", "n", "c", "e">>,
     <<"h", "i", "s", "t", "o", "r", "y">>,
     <<>>,
     <<"a", "l", "g", "e", "b", "r", "a", ".">>,
     <<"g", "e", "n", "e", "r", "a", "l", " ", "m", "a", "t", "h">>,
     <<"\t", "b", "i", "o", "l", "o", "g", "y", " ">>}

\* the processor's provider: none, one whose call raises, one that answers
Providers ==
    {None}
    \cup {Provider([ok |-> FALSE, text |-> d]) : d \in Details}
    \cup {Provider([ok |-> TRUE, text |-> a]) : a \in Answers}

\* the content whose subject is resolved
Contents == {<<"x", "=", "2">>, <<"a", " ", " ", "b">>}

\* a call of _detect_subject
call_detect_subject ==
    /\ res = None
    /\ res' = detect_subject(arg.text, arg.hint, arg.provider)
    /\ UNCHANGED <<pipeVars, arg>>

SubjectInit ==
    /\ PipelineInit
    /\ arg \in [text : Contents, hint : Hints, provider : Providers]
    /\ res = None

SubjectNext == call_detect_subject

SpecSubject == SubjectInit /\ [][SubjectNext]_vars

NoSubjectFound ==
    /\ arg.hint = None \/ ~Supported(lower(arg.hint.str))
    /\ \/ arg.provider = None
       \/ ~arg.provider.upstream.ok
       \/ ~Supported(lower(strip(arg.provider.upstream.text)))

Digits == {"0", "1", "2", "3", "4", "5", "6", "7", "8", "9"}
Letters == DOMAIN LowerCase \cup {LowerCase[c] : c \in DOMAIN LowerCase}
WordChars == Letters \cup Digits \cup {"_"}

\* the pattern syntax used by _extract_math_expressions
Chars(S) == [k |-> "set", s |-> S]
Cat(a) == [k |-> "cat", a |-> a]
Alt(a) == [k |-> "alt", a |-> a]
Star(r) == [k |-> "star", r |-> r]
Plus(r) == [k |-> "plus", r |-> r]
Opt(r) == [k |-> "opt", r |-> r]
WordBoundary == [k |-> "wb"]

IsWordAt(text, i) == i >= 1 /\ i <= Len(text) /\ text[i] \in WordChars

\* re's backtracking matcher: the positions where a match of `pattern`
\* starting at i may end, in the order the matcher tries them (greedy
\* quantifiers first take as much as they can, alternatives left to right).
RECURSIVE match_at(_, _, _)
RECURSIVE match_then(_, _, _)
match_then(ends, pattern, text) ==
    IF ends = <<>> THEN <<>>
    ELSE match_at(pattern, text, Head(ends))
         \o match_then(Tail(ends), pattern, text)

match_at(pattern, text, i) ==
    CASE pattern.k = "set" ->
             IF i <= Len(text) /\ text[i] \in pattern.s THEN <<i + 1>> ELSE <<>>
      [] pattern.k = "wb" ->
             IF IsWordAt(text, i - 1) # IsWordAt(text, i) THEN <<i>> ELSE <<>>
      [] pattern.k = "cat" ->
             IF pattern.a = <<>> THEN <<i>>
             ELSE match_then(match_at(Head(pattern.a), text, i),
                             Cat(Tail(pattern.a)), text)
      [] pattern.k = "alt" ->
             IF pattern.a = <<>> THEN <<>>
             ELSE match_at(Head(pattern.a), text, i)
                  \o match_at(Alt(Tail(pattern.a)), text, i)
      [] pattern.k = "opt" -> match_at(pattern.r, text, i) \o <<i>>
      [] pattern.k = "star" ->
             match_then(SelectSeq(match_at(pattern.r, text, i), LAMBDA j : j > i),
                        pattern, text)
             \o <<i>>
      [] pattern.k = "plus" ->
             match_at(Cat(<<pattern.r, Star(pattern.r)>>), text, i)

\* re.finditer(pattern, text): the non-overlapping matches, left to right
RECURSIVE finditer_from(_, _, _)
finditer_from(pattern, text, pos) ==
    IF pos > Len(text) + 1 THEN <<>>
    ELSE LET ends == match_at(pattern, text, pos)
         IN  IF ends = <<>> THEN finditer_from(pattern, text, pos + 1)
             ELSE <<[start |-> pos, end |-> Head(ends)]>>
                  \o finditer_from(pattern, text,
                                   IF Head(ends) > pos THEN Head(ends) ELSE pos + 1)

finditer(pattern, text) == finditer_from(pattern, text, 1)

\* ------------------------------------------------------------ expression extraction

\* \d \s \w and the bracket classes of the patterns
digit == Chars(Digits)
space == Chars(Whitespace)
word == Chars(WordChars)
letter == Chars(Letters)
operator == Chars({"-", "+", "*", "/", "="})
sign == Chars({"-", "+"})
dot == Chars({"."})

\* (?:\d+\.?\d*|\.\d+)
number == Alt(<<Cat(<<Plus(digit), Opt(dot), Star(digit)>>), Cat(<<dot, Plus(digit)>>)>>)

\* [-+]?\d*\.?\d+
signed == Cat(<<Opt(sign), Star(digit), Opt(dot), Plus(digit)>>)

\* the patterns list of _extract_math_expressions, in its order
patterns ==
    << Cat(<<number, Star(space), operator, Star(space), number>>),
       Cat(<<letter, Star(space), operator, Star(space), Plus(digit)>>),
       Cat(<<letter, Chars({"("}), letter, Chars({")"})>>),
       Cat(<<WordBoundary, Plus(word), Star(space), Chars({"="}), Star(space), signed>>),
       Cat(<<Chars({SQUARE_ROOT}), Plus(digit)>>),
       Cat(<<WordBoundary, Chars({"x", "y", "z"}), WordBoundary>>),
       Cat(<<WordBoundary, Chars({"a", "b", "c"}), WordBoundary>>),
       Cat(<<Chars({"("}), Star(space), signed, Star(space), Chars({","} \cup Whitespace),
             Star(space), signed, Star(space), Chars({")"})>>) >>

\* the matches the two nested loops visit, in the order they visit them:
\* for pattern in patterns: for match in re.finditer(pattern, text), each with
\* expr = match.group().strip()
RECURSIVE matches_from(_, _)
matches_from(text, p) ==
    IF p > Len(patterns) THEN <<>>
    ELSE LET found == finditer(patterns[p], text)
         IN  [n \in 1..Len(found) |->
                 [pattern |-> p, start |-> found[n].start,
                  expr |-> strip(SubSeq(text, found[n].start, found[n].end - 1))]]
             \o matches_from(text, p + 1)

all_matches(text) == matches_from(text, 1)

InSeq(x, xs) == \E i \in 1..Len(xs) : xs[i] = x

\* if expr not in math_expressions: math_expressions.append(expr)
RECURSIVE collect(_, _)
collect(matches, math_expressions) ==
    IF matches = <<>> THEN math_expressions
    ELSE collect(Tail(matches),
                 IF InSeq(Head(matches).expr, math_expressions)
                 THEN math_expressions
                 ELSE Append(math_expressions, Head(matches).expr))

\* _extract_math_expressions appending every match it visits
extract_math_expressions_all(text) ==
    [n \in 1..Len(all_matches(text)) |-> all_matches(text)[n].expr]

\* ProblemProcessor._extract_math_expressions
extract_math_expressions(text) == collect(all_matches(text), <<>>)

MaxExprLen == 3

ExprAlphabet == {"x", "a", "2", "=", "+", " ", "."}

ExprInputs == Strings(ExprAlphabet, MaxExprLen)

\* a call of _extract_math_expressions; matches records what its loops visited
call_extract_math_expressions ==
    /\ res = None
    /\ res' = [op |-> "extract", value |-> extract_math_expressions(arg),
               matches |-> all_matches(arg)]
    /\ UNCHANGED <<pipeVars, arg>>

ExtractInit ==
    /\ PipelineInit
    /\ arg \in ExprInputs
    /\ res = None

ExtractNext == call_extract_math_expressions

SpecExtract == ExtractInit /\ [][ExtractNext]_vars

\* the place of an expression's first visit
FirstVisit(matches, expr) ==
    CHOOSE i \in 1..Len(matches) :
        /\ matches[i].expr = expr
        /\ \A j \in 1..(i - 1) : matches[j].expr # expr

\* C15: the extraction result holds no string twice and lists the expressions
\* in the order of their first visit, the visits going through the patterns
\* in list order and, for each pattern, through the text from left to right.
C15_FirstSeenOrder ==
    (res # None /\ res.op = "extract") =>
        LET v == res.value
            m == res.matches
        IN  /\ \A k, l \in 1..Len(v) : k # l => v[k] # v[l]
            /\ {v[k] : k \in 1..Len(v)} = {m[i].expr : i \in 1..Len(m)}
            /\ \A k, l \in 1..Len(v) :
                   k < l => FirstVisit(m, v[k]) < FirstVisit(m, v[l])
            /\ \A i, j \in 1..Len(m) :
                   i < j => \/ m[i].pattern < m[j].pattern
                            \/ /\ m[i].pattern = m[j].pattern
                               /\ m[i].start < m[j].start

\* "x=2" is visited by the variable-operation and the assignment pattern and
\* kept once, before the "x" of the later common-variable pattern
C15_Witness ==
    /\ res # None /\ res.op = "extract"
    /\ arg = <<"x", "=", "2">>
    /\ Len(res.matches) = 3
    /\ res.value = <<(<<"x", "=", "2">>), (<<"x">>)>>

\* ------------------------------------------------------------ preprocessors

\* a key the context dict does not hold
Missing == [missing |-> TRUE]

\* a context dict: its 'subject' and 'grade_level' entries
Context(subject, grade_level) ==
    [none |-> FALSE, subject |-> subject, grade_level |-> grade_level]

\* context = context or {}; context.get('subject')
get_subject(context) ==
    IF context = None \/ context.subject = Missing THEN None ELSE context.subject

high_school == <<"h", "i", "g", "h", " ", "s", "c", "h", "o", "o", "l">>

\* context = context or {}; context.get('grade_level', 'high school')
get_grade_level(context) ==
    IF context = None \/ context.grade_level = Missing
    THEN Str(high_school)
    ELSE context.grade_level

\* ContentProcessor._find_related_terms: the lookup is not implemented
find_related_terms(term, subject) == <<>>

\* ContentProcessor.process_term keeping the term's case
process_term_keepcase(term, context, ai_provider) ==
    LET cleaned_term == clean_text(term)
        subject == detect_subject(cleaned_term, get_subject(context), ai_provider)
    IN  [processed_term |-> cleaned_term,
         subject |-> subject.value,
         grade_level |-> get_grade_level(context),
         related_terms |-> find_related_terms(cleaned_term, subject.value),
         prompted |-> subject.prompted]

\* ContentProcessor.process_term. prompted is what _detect_subject sent to
\* the provider.
process_term(term, context, ai_provider) ==
    LET cleaned_term == lower(clean_text(term))
        subject == detect_subject(cleaned_term, get_subject(context), ai_provider)
    IN  [processed_term |-> cleaned_term,
         subject |-> subject.value,
         grade_level |-> get_grade_level(context),
         related_terms |-> find_related_terms(cleaned_term, subject.value),
         prompted |-> subject.prompted]

Terms == 
    {<<" ", " ", "C", "e", "l", "l", " ", "\n", " ", "W", "a", "l", "l">>,
     <<"D", "N", "A">>,
     <<"m", "i", "t", "o", "s", "i", "s">>,
     <<>>}

GradeLevels == {Missing, Str(<<"c", "o", "l", "l", "e", "g", "e">>), Str(<<>>)}

Contexts ==
    {None}
    \cup {Context(h, g) : h \in {Missing, None, Str(<<"G", "e", "o", "m", "e", "t", "r", "y">>), Str(<<"h", "i", "s", "t", "o", "r", "y">>)},
                          g \in GradeLevels}

\* the providers a preprocessor is built with
SomeProviders ==
    {None,
     Provider([ok |-> FALSE, text |-> "network"]),
     Provider([ok |-> TRUE, text |-> <<" ", "B", "i", "o", "l", "o", "g", "y", "\n">>]),
     Provider([ok |-> TRUE, text |-> <<"h", "i", "s", "t", "o", "r", "y">>])}

\* a call of ContentProcessor.process
call_process_term ==
    /\ res = None
    /\ res' = process_term(arg.term, arg.context, arg.provider)
    /\ UNCHANGED <<pipeVars, arg>>

TermInit ==
    /\ PipelineInit
    /\ arg \in [term : Terms, context : Contexts, provider : SomeProviders]
    /\ res = None

TermNext == call_process_term

SpecTerm == TermInit /\ [][TermNext]_vars

\* C18: for every term and context, absent contexts included, the processed
\* term is the lowercased whitespace-collapsed input, the grade level is the
\* context's when it has one and "high school" otherwise, and the related
\* terms are empty.
C18_TermResult ==
    res # None =>
        /\ res.processed_term = lower(join(<<" ">>, split(arg.term)))
        /\ res.grade_level =
               IF arg.context # None /\ arg.context.grade_level # Missing
               THEN arg.context.grade_level
               ELSE Str(high_school)
        /\ res.related_terms = <<>>

\* a mixed-case term with repeated whitespace was processed without a context
C18_Witness ==
    /\ res # None
    /\ arg.term = <<" ", " ", "C", "e", "l", "l", " ", "\n", " ", "W", "a", "l", "l">>
    /\ arg.context = None
    /\ res.processed_term = <<"c", "e", "l", "l", " ", "w", "a", "l", "l">>
    /\ res.grade_level = Str(high_school)

\* ProblemProcessor.process, statement by statement. steps lists the steps
\* taken so far.
process_detect ==
    /\ res = None
    /\ LET subject == detect_subject(arg.content, get_subject(arg.context),
                                     arg.provider)
       IN  res' = [pc |-> "process_problem", steps |-> <<"subject">>,
                   subject |-> subject.value, prompted |-> subject.prompted,
                   text |-> arg.content, math_expressions |-> <<>>]
    /\ UNCHANGED <<pipeVars, arg>>

\* cleaned_problem = self._clean_text(problem)
process_clean ==
    /\ res # None /\ res.pc = "process_problem"
    /\ res' = [res EXCEPT !.pc = "cleaned", !.steps = Append(@, "normalize"),
                          !.text = clean_text(@)]
    /\ UNCHANGED <<pipeVars, arg>>

\* cleaned_problem = self._normalize_math_symbols(cleaned_problem)
process_symbols ==
    /\ res # None /\ res.pc = "cleaned"
    /\ res' = [res EXCEPT !.pc = "normalized", !.steps = Append(@, "symbols"),
                          !.text = normalize_math_symbols(@)]
    /\ UNCHANGED <<pipeVars, arg>>

\* math_parts = self._extract_math_expressions(cleaned_problem); return {...}
process_extract ==
    /\ res # None /\ res.pc = "normalized"
    /\ res' = [res EXCEPT !.pc = "returned", !.steps = Append(@, "extract"),
                          !.math_expressions = extract_math_expressions(res.text)]
    /\ UNCHANGED <<pipeVars, arg>>

Problems == 
    {<<"x", "=", "2">>,
     <<" ", "2", "U+00D7", "a", " ", " ", "=", "\n", "4", " ">>,
     <<"s", "o", "l", "v", "e", " ", "x">>}

ProblemInit ==
    /\ PipelineInit
    /\ arg \in [content : Problems, context : Contexts, provider : SomeProviders]
    /\ res = None

ProblemNext ==
    \/ process_detect
    \/ process_clean
    \/ process_symbols
    \/ process_extract

SpecProblem == ProblemInit /\ [][ProblemNext]_vars

\* C16: the Problem Preprocessor normalizes, substitutes the math symbols,
\* extracts the expressions and resolves the subject, in this order, and any
\* classification prompt carries the normalized text.
C16_SubjectAfterNormalization ==
    res # None =>
        /\ IsPrefix(res.steps, <<"normalize", "symbols", "extract", "subject">>)
        /\ \A i \in 1..Len(res.prompted) :
               res.prompted[i] = normalize_math_symbols(clean_text(arg.content))

\* ------------------------------------------------------------ service calls

\* uuid.UUID() without an argument raises TypeError
UUID ==
    [raised |-> TRUE, error |-> "TypeError",
     value |-> "one of the hex, bytes, bytes_le, fields, or int arguments must be given"]

\* self.db.commit(): returns, or raises what the database raised
commit(commit_ok) ==
    IF commit_ok THEN [raised |-> FALSE, error |-> NULL, value |-> NULL]
    ELSE [raised |-> TRUE, error |-> "SQLAlchemyError", value |-> "commit failed"]

\* AIService._generate_analysis and _generate_solutions: the placeholder
\* suggestion lists, confidence in hundredths
generate_analysis(content, analysis_type, context) ==
    <<[type |-> analysis_type, content |-> "Sample analysis result",
       confidence |-> 85]>>

generate_solutions(problem, subject, context) ==
    <<[type |-> "solution", content |-> "Sample solution", confidence |-> 90]>>

\* The primary operation of analyze_content / generate_solution
primary(request) ==
    IF request.op = "analyze_content"
    THEN generate_analysis(request.content, request.type, request.context)
    ELSE generate_solutions(request.content, request.subject, request.context)

\* f"Analysis failed: {str(e)}" / f"Solution generation failed: {str(e)}"
Failed(request, message) ==
    IF request.op = "analyze_content"
    THEN <<"Analysis failed: ", message>>
    ELSE <<"Solution generation failed: ", message>>

\* raise HTTPException(status_code=500, detail=...)
HTTPException(status_code, detail) ==
    [code |-> status_code, detail |-> detail, response |-> None, logged |-> FALSE]

\* The try block of analyze_content / generate_solution after the primary
\* operation: build the AIResponse, await _log_interaction, return the
\* response; `except Exception` covers all of it.
respond_and_log(request, suggestions, commit_ok) ==
    LET id == UUID
    IN  IF id.raised THEN HTTPException(500, Failed(request, id.value))
        ELSE IF commit(commit_ok).raised
        THEN HTTPException(500, Failed(request, commit(commit_ok).value))
        ELSE [code |-> 200, detail |-> <<>>,
              response |-> [id |-> id.value, suggestions |-> suggestions,
                            context |-> IF request.context = NULL THEN ""
                                        ELSE request.context],
              logged |-> TRUE]

\* the requests of the two service methods; commit_ok tells whether the
\* database accepts the log write of this request
ServiceRequests ==
    [op : {"analyze_content"}, user : Users, content : {"c1", "c2", "c3"},
     type : {"summary", "grammar"}, subject : {NULL}, context : {NULL, "ctx"},
     commit_ok : BOOLEAN]
    \cup
    [op : {"generate_solution"}, user : Users, content : {"c1", "c2", "c3"},
     type : {"solution"}, subject : {"algebra", "physics"},
     context : {NULL, "ctx"}, commit_ok : BOOLEAN]

\* analyze_content / generate_solution up to the end of the awaited primary
\* operation
service_generate ==
    /\ res = None
    /\ res' = [pc |-> "generated", primary_ok |-> TRUE,
               suggestions |-> primary(arg), code |-> 0, detail |-> <<>>,
               response |-> None]
    /\ UNCHANGED <<pipeVars, arg>>

\* the rest of the call: the response, the log write, the return or the raise
service_return ==
    /\ res # None /\ res.pc = "generated"
    /\ LET r == respond_and_log(arg, res.suggestions, arg.commit_ok)
       IN  /\ res' = [res EXCEPT !.pc = "returned", !.code = r.code,
                                 !.detail = r.detail, !.response = r.response]
           /\ interactions' =
                  IF r.logged
                  THEN [interactions EXCEPT ![NextId] =
                           LogRecord(arg.user, [content |-> arg.content],
                                     r.response, now)]
                  ELSE interactions
           /\ history' = IF r.logged THEN [history EXCEPT ![NextId] = <<NULL>>]
                         ELSE history
    /\ UNCHANGED <<queued, awaiting, providerCalls, outcome, rejected,
                   reinvoked, submitResp, legacy, statusResp, hung, arg>>

ServiceInit ==
    /\ PipelineInit
    /\ arg \in ServiceRequests
    /\ res = None

ServiceNext ==
    \/ service_generate
    \/ service_return

SpecService == ServiceInit /\ [][ServiceNext]_vars

\* C20: when the primary operation has succeeded and the database does not
\* accept the log write, the caller still receives the successful result.
C20_LogFailureHarmless ==
    (res # None /\ res.pc = "returned" /\ res.primary_ok /\ ~arg.commit_ok) =>
        /\ res.code = 200
        /\ res.response # None

\* the texts of the exceptions the try block of a service method can meet
ExceptionTexts == {UUID.value, commit(FALSE).value}

\* C21: the error the caller of an AI operation receives does not depend on
\* the text of the underlying exception: it is the same generic message for
\* every such text.
C21_ErrorIndependentOfDetail ==
    (res # None /\ res.pc = "returned" /\ res.code = 500) =>
        \A message \in ExceptionTexts :
            res.detail = HTTPException(500, Failed(arg, message)).detail

\* C22: a status check by the owner on a failed interaction answers with the
\* status failed and with the error message of that failure.
C22_FailedShowsMessage ==
    (/\ statusResp # None
     /\ statusResp.caller = "owner"
     /\ statusResp.resp.status = "failed") =>
        /\ statusResp.resp.code = 200
        /\ "error_message" \in DOMAIN statusResp.resp
        /\ statusResp.resp.error_message \in {CompletionFailed[x] : x \in Details}

\* ------------------------------------------------------------ request payload

\* the payloads of StemProblemRequest and DefinitionRequest a client submits
Payloads ==
    [user : Users, kind : Kinds, text : {"t1", "t2"},
     subject : {"algebra", "physics"}, context : {NULL, "ctx"}]

\* the client submits its payload to POST /solve or POST /define
submit_payload ==
    /\ \E limited \in BOOLEAN :
           IF arg.kind = "stem_solution"
           THEN route_solve_stem_problem(arg.user, arg.text, arg.subject,
                                         arg.context, limited)
           ELSE route_define_term(arg.user, arg.text, arg.context, limited)

PayloadInit ==
    /\ PipelineInit
    /\ arg \in Payloads
    /\ res = None

PayloadNext ==
    \/ submit_payload
    \/ \E id \in Ids : process_begin(id)
    \/ \E id \in Ids, up \in Upstream : process_end(id, up)

SpecPayload == PayloadInit /\ [][PayloadNext]_vars

\* what the client supplied, as the handler's request_data dict
Supplied ==
    IF arg.kind = "stem_solution"
    THEN [problem |-> arg.text, subject |-> arg.subject, context |-> arg.context]
    ELSE [term |-> arg.text, context |-> arg.context]

Minute == 2
MaxClock == 3
MaxRate == 2

\* request.client.host
Keys == {"10.0.0.1", "10.0.0.2"}

\* [req_time for req_time in times if now - req_time <= timedelta(minutes=1)]
recent_inclusive(times, t) == SelectSeq(times, LAMBDA req_time : t - req_time <= Minute)

\* [req_time for req_time in times if now - req_time < timedelta(minutes=1)]
recent(times, t) == SelectSeq(times, LAMBDA req_time : t - req_time < Minute)

\* RateLimiter.__call__ for the client `key` at time t: the dict afterwards
\* and whether HTTPException(429) was raised. A key the dict does not hold
\* gets an empty list first; the pruned list is stored before the limit is
\* tested.
limiter_call(requests, requests_per_minute, key, t) ==
    LET known == IF key \in DOMAIN requests THEN requests[key] ELSE <<>>
        kept == recent(known, t)
        store(list) ==
            [k \in DOMAIN requests \cup {key} |->
                IF k = key THEN list ELSE requests[k]]
    IN  IF Len(kept) >= requests_per_minute
        THEN [raised |-> TRUE, code |-> 429, requests |-> store(kept)]
        ELSE [raised |-> FALSE, code |-> 0, requests |-> store(Append(kept, t))]

\* datetime.now() moves on
limiter_tick ==
    /\ res.clock < MaxClock
    /\ res' = [res EXCEPT !.clock = @ + 1]
    /\ UNCHANGED <<pipeVars, arg>>

\* one call of the limiter; last keeps the call and the dict before it
limiter_request(key) ==
    /\ LET r == limiter_call(res.requests, arg.requests_per_minute, key, res.clock)
       IN  res' = [res EXCEPT !.requests = r.requests,
                              !.last = [key |-> key, at |-> res.clock,
                                        raised |-> r.raised, code |-> r.code,
                                        before |-> res.requests]]
    /\ UNCHANGED <<pipeVars, arg>>

\* RateLimiter.__init__: self.requests = {}
LimiterInit ==
    /\ PipelineInit
    /\ arg \in [requests_per_minute : 1..MaxRate]
    /\ res = [requests |-> <<>>, clock |-> 0, last |-> None]

LimiterNext ==
    \/ limiter_tick
    \/ \E key \in Keys : limiter_request(key)

SpecLimiter == LimiterInit /\ [][LimiterNext]_vars

\* the entries of a list that are younger than one minute at time t
Young(times, t) == {i \in 1..Len(times) : t - times[i] < Minute}

ListBefore(key) ==
    IF key \in DOMAIN res.last.before THEN res.last.before[key] ELSE <<>>

\* what C28 says of the call itself: the calling key's list holds at most
\* requests_per_minute entries, all younger than a minute; the call is rejected
\* with 429 exactly when the key already held requests_per_minute such
\* entries; a rejected call records no timestamp and no call changes another
\* key's list.
CallContract ==
    LET key == res.last.key
        t == res.last.at
        now_list == res.requests[key]
        young == Cardinality(Young(ListBefore(key), t))
    IN  /\ Len(now_list) <= arg.requests_per_minute
        /\ \A i \in 1..Len(now_list) : t - now_list[i] < Minute
        /\ res.last.raised <=> young >= arg.requests_per_minute
        /\ res.last.raised => (res.last.code = 429 /\ Len(now_list) = young)
        /\ ~res.last.raised =>
               (Len(now_list) = young + 1 /\ now_list[Len(now_list)] = t)
        /\ \A k \in DOMAIN res.last.before :
               k # key => res.requests[k] = res.last.before[k]
        /\ DOMAIN res.requests = DOMAIN res.last.before \cup {key}

\* C28 as stated: after every call the list of each client key holds at most
\* requests_per_minute entries, all younger than one minute, and the call
\* keeps its contract.
C28_EveryKeyYoung ==
    (res.last # None /\ res.clock = res.last.at) =>
        /\ CallContract
        /\ \A k \in DOMAIN res.requests :
               /\ Len(res.requests[k]) <= arg.requests_per_minute
               /\ \A i \in 1..Len(res.requests[k]) :
                      res.last.at - res.requests[k][i] < Minute

\* C28 amended: after every call the list of each client key holds at most
\* requests_per_minute entries, and those of the calling key are all younger
\* than one minute; the call keeps its contract.
C28_CallingKeyYoung ==
    (res.last # None /\ res.clock = res.last.at) =>
        /\ CallContract
        /\ \A k \in DOMAIN res.requests :
               Len(res.requests[k]) <= arg.requests_per_minute

\* a call was rejected while another key holds an entry older than a minute
C28_Witness ==
    /\ res.last # None /\ res.clock = res.last.at
    /\ res.last.raised
    /\ \E k \in DOMAIN res.requests :
           /\ k # res.last.key
           /\ \E i \in 1..Len(res.requests[k]) :
                  res.last.at - res.requests[k][i] >= Minute

\* ------------------------------------------------------------ rate-limited endpoints

\* rate_limiter = RateLimiter(requests_per_minute=30)
requests_per_minute == 30

\* who sends a request from which client address: alice from two addresses,
\* bob from one of them
Clients ==
    {[user |-> "alice", host |-> "10.0.0.1"],
     [user |-> "alice", host |-> "10.0.0.2"],
     [user |-> "bob", host |-> "10.0.0.1"]}

\* POST /solve or POST /define up to the end of `await rate_limiter(request)`,
\* all requests within one minute (at instant 0): the limiter is keyed by the
\* client address; its 429 leaves through `except Exception` as a 500, and
\* otherwise the request goes on to be queued. accepted counts, per user, the
\* requests that went on.
endpoint_request(client) ==
    /\ LET r == limiter_call(res.requests, requests_per_minute, client.host, 0)
       IN  res' = [requests |-> r.requests,
                   accepted |-> IF r.raised THEN res.accepted
                                ELSE [res.accepted EXCEPT ![client.user] = @ + 1],
                   last |-> [user |-> client.user, kind |-> arg.kind,
                             code |-> IF r.raised THEN 500 ELSE 200]]
    /\ UNCHANGED <<pipeVars, arg>>

\* the next request is for the other endpoint
endpoint_switch ==
    /\ arg' = [kind |-> IF arg.kind = "stem_solution" THEN "term_definition"
                        ELSE "stem_solution"]
    /\ UNCHANGED <<pipeVars, res>>

EndpointInit ==
    /\ PipelineInit
    /\ arg \in [kind : Kinds]
    /\ res = [requests |-> <<>>, accepted |-> [u \in Users |-> 0], last |-> None]

EndpointNext ==
    \/ \E client \in Clients : endpoint_request(client)
    \/ endpoint_switch

SpecEndpoint == EndpointInit /\ [][EndpointNext]_vars

\* C24: within one minute at most 30 requests of a user are accepted, and a
\* user's request is turned away only when that user's own 30 are used up:
\* the requests of other users do not count.
C24_PerUserLimit ==
    /\ \A u \in Users : res.accepted[u] <= 30
    /\ (res.last # None /\ res.last.code # 200) => res.accepted[res.last.user] = 30

C26_NotFoundIs404 ==
    (statusResp # None /\ statusResp.caller \in {"missing", "other"}) =>
        /\ statusResp.resp.code = 404
        /\ statusResp.resp.detail = "Interaction not found"

NoteIds == {"n1", "n2"}
ElementIds == {"e1", "e2"}
Titles == {"t1", "t2"}

\* the longest element list a note is given
MaxElements == 2

\* a NoteElement as stored in a note: element.model_dump()
NoteElements == [id : ElementIds, content : {"a", "b"}]

\* the notes table at the start: every note has an owner, a title and one
\* element
StartNotes(owners) ==
    [n \in NoteIds |->
        [user_id |-> owners[n], title |-> "t1",
         elements |-> <<[id |-> "e1", content |-> "a"]>>]]

\* NoteService.get_note: filter(Note.id == note_id, Note.user_id == user_id)
get_note(notes, note_id, user_id) ==
    IF notes[note_id] # None /\ notes[note_id].user_id = user_id
    THEN notes[note_id]
    ELSE None

\* BaseService.get: filter(self.model.id == id), whoever owns the row
get_by_id(notes, note_id) == notes[note_id]

\* the acting user reads a note
note_get(note_id) ==
    /\ res' = [res EXCEPT !.seen = get_note(res.notes, note_id, arg.actor)]
    /\ UNCHANGED <<pipeVars, arg>>

\* NoteService.update_note: the caller's note gets the new fields
note_update(note_id, title) ==
    /\ LET note == get_note(res.notes, note_id, arg.actor)
       IN  res' = IF note = None THEN [res EXCEPT !.seen = None]
                  ELSE [res EXCEPT !.seen = None,
                                   !.notes[note_id].title = title]
    /\ UNCHANGED <<pipeVars, arg>>

\* NoteService.add_element: the element is appended to the caller's note
note_add_element(note_id, element) ==
    /\ LET note == get_note(res.notes, note_id, arg.actor)
       IN  /\ note # None => Len(note.elements) < MaxElements
           /\ res' = IF note = None THEN [res EXCEPT !.seen = None]
                     ELSE [res EXCEPT !.seen = None,
                                      !.notes[note_id].elements = Append(@, element)]
    /\ UNCHANGED <<pipeVars, arg>>

\* the first index of the element with that id, 0 if there is none
IndexOf(elements, element_id) ==
    IF \E i \in 1..Len(elements) : elements[i].id = element_id
    THEN CHOOSE i \in 1..Len(elements) :
             /\ elements[i].id = element_id
             /\ \A j \in 1..(i - 1) : elements[j].id # element_id
    ELSE 0

\* NoteService.update_element(note_id, element_id, element): the note is
\* looked up with self.get(note_id); the method takes no user. 404 when the
\* note or the element is missing.
note_update_element(note_id, element_id, element) ==
    /\ LET note == get_by_id(res.notes, note_id)
           idx == IF note = None THEN 0 ELSE IndexOf(note.elements, element_id)
       IN  res' = IF idx = 0 THEN [res EXCEPT !.seen = None]
                  ELSE [res EXCEPT !.seen = None,
                                   !.notes[note_id].elements[idx] = element]
    /\ UNCHANGED <<pipeVars, arg>>

\* NoteService.remove_element(note_id, element_id): looked up with
\* self.get(note_id) too; 404 when the note or the element is missing.
note_remove_element(note_id, element_id) ==
    /\ LET note == get_by_id(res.notes, note_id)
           kept == IF note = None THEN <<>>
                   ELSE SelectSeq(note.elements, LAMBDA e : e.id # element_id)
       IN  res' = IF note = None \/ Len(kept) = Len(note.elements)
                  THEN [res EXCEPT !.seen = None]
                  ELSE [res EXCEPT !.seen = None,
                                   !.notes[note_id].elements = kept]
    /\ UNCHANGED <<pipeVars, arg>>

\* NoteService.bulk_delete_notes: filter(Note.id.in_(note_ids),
\* Note.user_id == user_id).delete()
note_bulk_delete(note_ids) ==
    /\ res' = [res EXCEPT
                  !.seen = None,
                  !.notes = [n \in NoteIds |->
                                IF /\ n \in note_ids
                                   /\ res.notes[n] # None
                                   /\ res.notes[n].user_id = arg.actor
                                THEN None
                                ELSE res.notes[n]]]
    /\ UNCHANGED <<pipeVars, arg>>

\* one user acts on a table of notes with any owners
NotesInit ==
    /\ PipelineInit
    /\ arg \in [actor : Users, owners : [NoteIds -> Users]]
    /\ res = [notes |-> StartNotes(arg.owners), seen |-> None]

NotesNext ==
    \/ \E n \in NoteIds : note_get(n)
    \/ \E n \in NoteIds, t \in Titles : note_update(n, t)
    \/ \E n \in NoteIds, e \in NoteElements : note_add_element(n, e)
    \/ \E n \in NoteIds, i \in ElementIds, e \in NoteElements :
           note_update_element(n, i, e)
    \/ \E n \in NoteIds, i \in ElementIds : note_remove_element(n, i)
    \/ \E ns \in SUBSET NoteIds : note_bulk_delete(ns)

SpecNotes == NotesInit /\ [][NotesNext]_vars

\* C29: after any sequence of NoteService operations by one user, every note
\* owned by another user is still present and unchanged, and no such note
\* was handed to the acting user.
C29_OnlyOwnNotes ==
    /\ \A n \in NoteIds :
           arg.owners[n] # arg.actor => res.notes[n] = StartNotes(arg.owners)[n]
    /\ res.seen # None => res.seen.user_id = arg.actor

\* ------------------------------------------------------------ accounts

Passwords == {"secret", "guess"}

\* the users table: every user is active and has the password "secret"
StartUsers == [u \in Users |-> [is_active |-> TRUE, password |-> "secret"]]

\* UserService._verify_password
verify_password(password, user) == password = user.password

\* UserService.authenticate_user: the user, or None on a wrong password;
\* is_active is not looked at
authenticate_user(users, email, password) ==
    IF verify_password(password, users[email])
    THEN [none |-> FALSE, id |-> email]
    ELSE None

\* get_current_user that only verifies that the user exists
get_current_user_any(users, token) == [code |-> 200, user_id |-> token.sub]

\* middleware/auth.py get_current_user: the token's user when it is active,
\* 401 "User inactive" otherwise
get_current_user(users, token) ==
    IF ~users[token.sub].is_active
    THEN [code |-> 401, user_id |-> NULL]
    ELSE [code |-> 200, user_id |-> token.sub]

\* POST /login: a token for the authenticated user, or 401. late tells that
\* the token was issued after the user's deactivation.
login(email, password) ==
    /\ LET user == authenticate_user(res.users, email, password)
       IN  res' = [res EXCEPT
                      !.tokens = IF user = None THEN @
                                 ELSE @ \cup {[sub |-> user.id,
                                               late |-> res.deactivated[user.id]]},
                      !.last = [op |-> "login", user |-> email,
                                code |-> IF user = None THEN 401 ELSE 200,
                                late |-> FALSE, wrong |-> user = None,
                                before |-> res.users]]
    /\ UNCHANGED <<pipeVars, arg>>

\* any request that depends on get_current_user
authenticated_request(token) ==
    /\ token \in res.tokens
    /\ res' = [res EXCEPT
                  !.last = [op |-> "request", user |-> token.sub,
                            code |-> get_current_user(res.users, token).code,
                            late |-> token.late, wrong |-> FALSE,
                            before |-> res.users]]
    /\ UNCHANGED <<pipeVars, arg>>

\* UserService.deactivate_account behind get_current_user: 400 on a wrong
\* password, 500 after a rollback when the commit fails, otherwise the user
\* is inactive from now on
deactivate_account(token, password, commit_ok) ==
    /\ token \in res.tokens
    /\ LET auth == get_current_user(res.users, token)
           user == res.users[token.sub]
           code == IF auth.code # 200 THEN auth.code
                   ELSE IF ~verify_password(password, user) THEN 400
                   ELSE IF commit(commit_ok).raised THEN 500
                   ELSE 200
       IN  res' = [res EXCEPT
                      !.users = IF code = 200
                                THEN [@ EXCEPT ![token.sub].is_active = FALSE]
                                ELSE @,
                      !.deactivated = IF code = 200
                                      THEN [@ EXCEPT ![token.sub] = TRUE]
                                      ELSE @,
                      !.last = [op |-> "deactivate", user |-> token.sub,
                                code |-> code, late |-> token.late,
                                wrong |-> ~verify_password(password, user),
                                before |-> res.users]]
    /\ UNCHANGED <<pipeVars, arg>>

Tokens == [sub : Users, late : BOOLEAN]

AccountsInit ==
    /\ PipelineInit
    /\ arg = None
    /\ res = [users |-> StartUsers, deactivated |-> [u \in Users |-> FALSE],
              tokens |-> {},
              last |-> [op |-> "start", user |-> NULL, code |-> 0,
                        late |-> FALSE, wrong |-> FALSE, before |-> StartUsers]]

AccountsNext ==
    \/ \E u \in Users, p \in Passwords : login(u, p)
    \/ \E t \in Tokens : authenticated_request(t)
    \/ \E t \in Tokens, p \in Passwords, ok \in BOOLEAN : deactivate_account(t, p, ok)

SpecAccounts == AccountsInit /\ [][AccountsNext]_vars

\* C30: once deactivate_account has succeeded for a user, every request with
\* a token of that user is answered 401 by get_current_user, whether the
\* token was issued before the deactivation or by a later login; and a
\* deactivation with a wrong password leaves the users as they were.
C30_DeactivatedIsRejected ==
    /\ \A u \in Users : res.deactivated[u] => ~res.users[u].is_active
    /\ (res.last.op \in {"request", "deactivate"} /\ res.deactivated[res.last.user]
        /\ res.last.before = res.users)
           => res.last.code = 401
    /\ (res.last.op = "deactivate" /\ res.last.wrong)
           => (res.users = res.last.before /\ res.last.code # 200)

\* a token obtained by logging in after the deactivation was turned away
C30_Witness ==
    /\ res.last.op = "request"
    /\ res.last.late
    /\ res.deactivated[res.last.user]
    /\ res.last.code = 401

====
